---- MODULE Spec2Model ----
(***************************************************************************)
(* Model of verifiers/tools/search.py: the three search tools search_ddg,  *)
(* search and search_RAG.  A Python str is a sequence of characters (each  *)
(* character a one-character string; "BULLET" stands for U+2022), a dict   *)
(* is a function whose DOMAIN is its key set, a list is a sequence.        *)
(* One behaviour is one call of one of the tools; the backends are the     *)
(* environment and answer nondeterministically.                            *)
(***************************************************************************)
EXTENDS Integers, Sequences, FiniteSets, TLC

VARIABLES pc, fn, num_results, sent, resp, results, summaries, snippets,
          exc, ret, returned, raised, faulted, open, acquired, parsed

vars == <<pc, fn, num_results, sent, resp, results, summaries, snippets,
          exc, ret, returned, raised, faulted, open, acquired, parsed>>

(* ------------------------------ bounds --------------------------------- *)
\* longest result list a backend of search_ddg / search_RAG answers with
MaxRecords == 3
\* longest result list the backend of search answers with
MaxWebRecords == 4

(* --------------------------- string literals --------------------------- *)
ErrorPrefix == <<"E", "r", "r", "o", "r", ":", " ">>
NoResultsFound == <<"N", "o", " ", "r", "e", "s", "u", "l", "t", "s", " ", "f", "o", "u", "n", "d">>
NoTitle == <<"N", "o", " ", "T", "i", "t", "l", "e">>
NoTextAvailable == <<"N", "o", " ", "t", "e", "x", "t", " ", "a", "v", "a", "i", "l", "a", "b", "l", "e">>
BlockSep == <<"\n", "\n">>
DdgBullet == <<"BULLET", " ">>
DdgIndent == <<"\n", " ", " ">>
BraveBullet == <<"BULLET", " ", " ">>
BraveIndent == <<"\n", " ", " ", " ">>
Ellipsis == <<" ", ".", ".", ".">>
RetrieveUrl == <<"h", "t", "t", "p", ":", "/", "/", "1", "2", "7", ".", "0", ".", "0", ".", "1", ":", "8", "0", "0", "0", "/", "r", "e", "t", "r", "i", "e", "v", "e">>

\* the backend maximum of search_ddg: min(num_results, 10)
DdgMaxResults == 10
\* body[:200] in search_ddg
DdgWindow == 200
\* count=10 in search
BraveCount == 10
\* description[:300] in search
BraveWindow == 300
\* summaries[:3] in search
BraveCap == 3
\* text[:200] in search_RAG
RagWindow == 200
\* response.status_code != 200
HttpOk == 200

(* ----------------------- Python built-ins used ------------------------- *)
Min(a, b) == IF a < b THEN a ELSE b

\* s[:n] for n >= 0
Prefix(s, n) == SubSeq(s, 1, Min(Len(s), n))

\* s.rfind(c) + 1: index of the last occurrence of character c in s, 0 when none
RFind(s, c) ==
    LET hits == { i \in 1..Len(s) : s[i] = c }
    IN  IF hits = {} THEN 0 ELSE CHOOSE i \in hits : \A j \in hits : j <= i

\* c in s
Contains(s, c) == \E i \in 1..Len(s) : s[i] = c

\* s.rsplit('.', 1)[0]: everything before the last period, s when there is none
RSplitFirst(s) ==
    LET k == RFind(s, ".")
    IN  IF k = 0 THEN s ELSE SubSeq(s, 1, k - 1)

\* sep.join(parts)
RECURSIVE Join(_, _)
Join(sep, parts) ==
    IF Len(parts) = 0 THEN <<>>
    ELSE IF Len(parts) = 1 THEN parts[1]
    ELSE parts[1] \o sep \o Join(sep, Tail(parts))

Digit(d) == <<"0", "1", "2", "3", "4", "5", "6", "7", "8", "9">>[d + 1]

\* str(n) of a non-negative integer, as an f-string formats it
RECURSIVE IntToStr(_)
IntToStr(n) ==
    IF n < 10 THEN <<Digit(n)>>
    ELSE Append(IntToStr(n \div 10), Digit(n % 10))

\* the characters of a dict key
KeyChars(k) ==
    CASE k = "title"       -> <<"t", "i", "t", "l", "e">>
      [] k = "body"        -> <<"b", "o", "d", "y">>
      [] k = "name"        -> <<"n", "a", "m", "e">>
      [] k = "long_name"   -> <<"l", "o", "n", "g", "_", "n", "a", "m", "e">>
      [] k = "description" -> <<"d", "e", "s", "c", "r", "i", "p", "t", "i", "o", "n">>
      [] k = "url"         -> <<"u", "r", "l">>

\* str(KeyError(k)): the repr of the key
KeyErrorStr(k) == <<"'">> \o KeyChars(k) \o <<"'">>

\* d.get(k, default)
DictGet(d, k, default) == IF k \in DOMAIN d THEN d[k] ELSE default

\* the empty dict
EmptyDict == [k \in {} |-> <<>>]

\* f"Error: {str(e)}"
ErrorString(msg) == ErrorPrefix \o msg

(* ------------------------- the environment ----------------------------- *)
Query == <<"w", "h", "o">>

\* messages of the exceptions a backend raises (str(e) may be empty)
FaultMsgs == { <<"t", "i", "m", "e", "d", " ", "o", "u", "t">>, <<>> }

ImportErrorMsg == <<"N", "o", " ", "m", "o", "d", "u", "l", "e">>

\* a text of the given length with periods at the given positions (1-based)
Body(len, periods) == [i \in 1..len |-> IF i \in periods THEN "." ELSE "a"]

TitleA == <<"E", "d", "i", "s", "o", "n">>
TitleB == <<"S", "w", "a", "n">>

\* num_results arguments tried
NumResultsArgs == {1, 3, 20}

\* records the search_ddg backend answers with; the last two lack a key
DdgRecords ==
    << [title |-> TitleA, body |-> Body(250, {181, 230})],
       [title |-> TitleB, body |-> Body(250, {230})],
       [title |-> TitleA, body |-> Body(12, {4, 9})],
       [title |-> TitleB, body |-> Body(201, {200, 201})],
       [title |-> TitleA, body |-> <<>>],
       [body |-> Body(12, {4, 9})],
       [title |-> TitleB] >>

\* all lists of at most n items, each item one of the entries of the tuple recs
RECURSIVE ListsOver(_, _)
ListsOver(recs, n) ==
    IF n = 0 THEN { <<>> }
    ELSE LET shorter == ListsOver(recs, n - 1)
         IN  shorter \cup { Append(l, recs[k]) : l \in { s \in shorter : Len(s) = n - 1 },
                                                k \in 1..Len(recs) }

(* ------------------------------ search_ddg ----------------------------- *)
\* DdgSnippet trimming at the first period of the window: split instead of rsplit
DdgSnippetFirstPeriod(body) ==
    LET w == Prefix(body, DdgWindow)
        hits == { i \in 1..Len(w) : w[i] = "." }
        k == IF hits = {} THEN 0 ELSE CHOOSE i \in hits : \A j \in hits : i <= j
    IN  (IF k = 0 THEN w ELSE SubSeq(w, 1, k - 1)) \o <<".">>

\* r['body'][:200].rsplit('.', 1)[0] + '.'
DdgSnippet(body) == RSplitFirst(Prefix(body, DdgWindow)) \o <<".">>

\* f"• {title}\n  {snippet}"
DdgBlock(title, snippet) == DdgBullet \o title \o DdgIndent \o snippet

\* the for loop over results: the summaries, or the first KeyError
RECURSIVE DdgLoop(_, _, _, _)
DdgLoop(rs, i, sums, snips) ==
    IF i > Len(rs) THEN [ok |-> TRUE, summaries |-> sums, snippets |-> snips, msg |-> <<>>]
    ELSE LET r == rs[i]
         IN  IF "title" \notin DOMAIN r
                 THEN [ok |-> FALSE, summaries |-> sums, snippets |-> snips, msg |-> KeyErrorStr("title")]
             ELSE IF "body" \notin DOMAIN r
                 THEN [ok |-> FALSE, summaries |-> sums, snippets |-> snips, msg |-> KeyErrorStr("body")]
             ELSE LET snippet == DdgSnippet(r.body)
                  IN  DdgLoop(rs, i + 1, Append(sums, DdgBlock(r.title, snippet)),
                              Append(snips, snippet))

\* JoinSummaries with a single newline between the blocks
JoinSummariesOneNewline(sums) == Join(<<"\n">>, sums)

\* "\n\n".join(summaries)
JoinSummaries(sums) == Join(BlockSep, sums)

Init ==
    /\ pc = "idle"
    /\ fn = "none"
    /\ num_results = 5
    /\ sent = <<>>
    /\ resp = [kind |-> "none"]
    /\ results = <<>>
    /\ summaries = <<>>
    /\ snippets = <<>>
    /\ exc = <<>>
    /\ ret = <<>>
    /\ returned = FALSE
    /\ raised = FALSE
    /\ faulted = FALSE
    /\ open = 0
    /\ acquired = 0
    /\ parsed = FALSE

\* search_ddg(query, num_results) is called
CallDdg ==
    /\ pc = "idle"
    /\ \E n \in NumResultsArgs : num_results' = n
    /\ fn' = "search_ddg"
    /\ pc' = "ddg_import"
    /\ UNCHANGED <<sent, resp, results, summaries, snippets, exc, ret, returned,
                   raised, faulted, open, acquired, parsed>>

\* from duckduckgo_search import DDGS, outside the try
DdgImport ==
    /\ pc = "ddg_import"
    /\ \/ /\ pc' = "ddg_enter"
          /\ UNCHANGED <<exc, raised, faulted>>
       \/ /\ pc' = "done"
          /\ exc' = <<ImportErrorMsg>>
          /\ raised' = TRUE
          /\ faulted' = TRUE
    /\ UNCHANGED <<fn, num_results, sent, resp, results, summaries, snippets, ret,
                   returned, open, acquired, parsed>>

\* with DDGS() as ddgs: the client is constructed and entered, or that raises
DdgEnter ==
    /\ pc = "ddg_enter"
    /\ \/ /\ pc' = "ddg_text"
          /\ open' = open + 1
          /\ acquired' = acquired + 1
          /\ UNCHANGED <<exc, faulted>>
       \/ /\ \E m \in FaultMsgs : exc' = <<m>>
          /\ faulted' = TRUE
          /\ pc' = "ddg_except"
          /\ UNCHANGED <<open, acquired>>
    /\ UNCHANGED <<fn, num_results, sent, resp, results, summaries, snippets, ret,
                   returned, raised, parsed>>

\* results = list(ddgs.text(query, max_results=min(num_results, 10)))
DdgText ==
    /\ pc = "ddg_text"
    /\ sent' = Append(sent, [query |-> Query, max_results |-> Min(num_results, DdgMaxResults)])
    /\ \/ /\ \E l \in ListsOver(DdgRecords, MaxRecords) :
                /\ resp' = [kind |-> "list", items |-> l]
                /\ results' = l
          /\ pc' = "ddg_format"
          /\ UNCHANGED <<exc, faulted>>
       \/ /\ \E m \in FaultMsgs : exc' = <<m>>
          /\ resp' = [kind |-> "fault"]
          /\ faulted' = TRUE
          /\ pc' = "ddg_exit"
          /\ UNCHANGED results
    /\ UNCHANGED <<fn, num_results, summaries, snippets, ret, returned, raised,
                   open, acquired, parsed>>

\* if not results: return "No results found"
DdgNoResults(rs) == Len(rs) = 0

\* the body of the with block after the request, up to its return or raise
DdgFormat ==
    /\ pc = "ddg_format"
    /\ IF DdgNoResults(results)
          THEN /\ ret' = NoResultsFound
               /\ UNCHANGED <<summaries, snippets, exc, faulted>>
          ELSE LET out == DdgLoop(results, 1, <<>>, <<>>)
               IN  /\ summaries' = out.summaries
                   /\ snippets' = out.snippets
                   /\ IF out.ok
                         THEN /\ ret' = JoinSummaries(out.summaries)
                              /\ UNCHANGED <<exc, faulted>>
                         ELSE /\ exc' = <<out.msg>>
                              /\ faulted' = TRUE
                              /\ UNCHANGED ret
    /\ pc' = "ddg_exit"
    /\ UNCHANGED <<fn, num_results, sent, resp, results, returned, raised, open,
                   acquired, parsed>>

\* DDGS.__exit__ on leaving the with block, by return or by exception
DdgExit ==
    /\ pc = "ddg_exit"
    /\ open' = open - 1
    /\ IF Len(exc) = 0
          THEN /\ returned' = TRUE
               /\ pc' = "done"
          ELSE /\ pc' = "ddg_except"
               /\ UNCHANGED returned
    /\ UNCHANGED <<fn, num_results, sent, resp, results, summaries, snippets, exc,
                   ret, raised, faulted, acquired, parsed>>

\* except Exception as e: return f"Error: {str(e)}"
DdgExcept ==
    /\ pc = "ddg_except"
    /\ ret' = ErrorString(exc[1])
    /\ returned' = TRUE
    /\ pc' = "done"
    /\ UNCHANGED <<fn, num_results, sent, resp, results, summaries, snippets, exc,
                   raised, faulted, open, acquired, parsed>>

(* -------------------------------- search ------------------------------- *)
ProfileWiki == [name |-> <<"W", "i", "k", "i">>, long_name |-> <<"w", "i", "k", "i", ".", "o", "r", "g">>]
UrlA == <<"h", "t", "t", "p", "s", ":", "/", "/", "a", ".", "o", "r", "g">>

\* records the search backend answers with: two well-formed ones (the second
\* with a description longer than the 300-character window), one without
\* 'profile' (nor description nor url), and five with a profile but lacking one other key
BraveRecords ==
    << [profile |-> ProfileWiki, title |-> TitleA, description |-> Body(12, {4, 9}), url |-> UrlA],
       [profile |-> ProfileWiki, title |-> TitleB, description |-> Body(310, {150}), url |-> UrlA],
       [title |-> TitleA],
       [profile |-> ProfileWiki, description |-> Body(12, {4, 9}), url |-> UrlA],
       [profile |-> ProfileWiki, title |-> TitleA, url |-> UrlA],
       [profile |-> ProfileWiki, title |-> TitleA, description |-> Body(12, {4, 9})],
       [profile |-> [long_name |-> <<"w">>], title |-> TitleA, description |-> Body(12, {4, 9}), url |-> UrlA],
       [profile |-> [name |-> <<"W">>], title |-> TitleA, description |-> Body(12, {4, 9}), url |-> UrlA] >>

\* the raw responses of brave.search: no 'web', 'web' without 'results', or a list
BraveResponses ==
    { EmptyDict, [web |-> EmptyDict] }
        \cup { [web |-> [results |-> l]] : l \in ListsOver(BraveRecords, MaxWebRecords) }

\* results.get('web', {}).get('results', [])
WebResults(data) == DictGet(DictGet(data, "web", EmptyDict), "results", <<>>)

\* r['description'][:300] + " ..."
BraveSnippet(description) == Prefix(description, BraveWindow) \o Ellipsis

\* f"{r['profile']['name']} ({r['profile']['long_name']})"
BraveHeader(profile) == profile.name \o <<" ", "(">> \o profile.long_name \o <<")">>

\* f"•  {header}\n   {title}\n   {snippet}\n   {url}"
BraveBlock(header, title, snippet, url) ==
    BraveBullet \o header \o BraveIndent \o title \o BraveIndent \o snippet \o BraveIndent \o url

\* the first key the loop body looks up in r that r lacks, "" when r has them all
BraveMissingKey(r) ==
    IF "name" \notin DOMAIN r.profile THEN "name"
    ELSE IF "long_name" \notin DOMAIN r.profile THEN "long_name"
    ELSE IF "title" \notin DOMAIN r THEN "title"
    ELSE IF "description" \notin DOMAIN r THEN "description"
    ELSE IF "url" \notin DOMAIN r THEN "url"
    ELSE ""

\* if 'profile' not in r: continue
BraveSkip(r) == "profile" \notin DOMAIN r

\* the for loop over web_results: the summaries, or the first KeyError
RECURSIVE BraveLoop(_, _, _, _)
BraveLoop(rs, i, sums, snips) ==
    IF i > Len(rs) THEN [ok |-> TRUE, summaries |-> sums, snippets |-> snips, msg |-> <<>>]
    ELSE LET r == rs[i]
         IN  IF BraveSkip(r) THEN BraveLoop(rs, i + 1, sums, snips)
             ELSE IF BraveMissingKey(r) # ""
                 THEN [ok |-> FALSE, summaries |-> sums, snippets |-> snips,
                       msg |-> KeyErrorStr(BraveMissingKey(r))]
             ELSE LET snippet == BraveSnippet(r.description)
                  IN  BraveLoop(rs, i + 1,
                                Append(sums, BraveBlock(BraveHeader(r.profile), r.title, snippet, r.url)),
                                Append(snips, snippet))

\* BraveJoin without the cap: the [:3] forgotten
BraveJoinNoCap(sums) == Join(BlockSep, sums)

\* "\n\n".join(summaries[:3])
BraveJoin(sums) == Join(BlockSep, Prefix(sums, BraveCap))

\* search(query) is called
CallSearch ==
    /\ pc = "idle"
    /\ fn' = "search"
    /\ pc' = "brave_import"
    /\ UNCHANGED <<num_results, sent, resp, results, summaries, snippets, exc, ret,
                   returned, raised, faulted, open, acquired, parsed>>

\* from brave import Brave, outside the try
BraveImport ==
    /\ pc = "brave_import"
    /\ \/ /\ pc' = "brave_new"
          /\ UNCHANGED <<exc, raised, faulted>>
       \/ /\ pc' = "done"
          /\ exc' = <<ImportErrorMsg>>
          /\ raised' = TRUE
          /\ faulted' = TRUE
    /\ UNCHANGED <<fn, num_results, sent, resp, results, summaries, snippets, ret,
                   returned, open, acquired, parsed>>

\* brave = Brave(): the client is constructed, or the constructor raises
BraveNew ==
    /\ pc = "brave_new"
    /\ \/ /\ pc' = "brave_search"
          /\ open' = open + 1
          /\ acquired' = acquired + 1
          /\ UNCHANGED <<exc, faulted>>
       \/ /\ \E m \in FaultMsgs : exc' = <<m>>
          /\ faulted' = TRUE
          /\ pc' = "brave_except"
          /\ UNCHANGED <<open, acquired>>
    /\ UNCHANGED <<fn, num_results, sent, resp, results, summaries, snippets, ret,
                   returned, raised, parsed>>

\* results = brave.search(q=query, count=10, raw=True)
BraveSearch ==
    /\ pc = "brave_search"
    /\ sent' = Append(sent, [q |-> Query, count |-> BraveCount, raw |-> TRUE])
    /\ \/ /\ \E d \in BraveResponses : resp' = [kind |-> "raw", data |-> d]
          /\ pc' = "brave_format"
          /\ UNCHANGED <<exc, faulted>>
       \/ /\ \E m \in FaultMsgs : exc' = <<m>>
          /\ resp' = [kind |-> "fault"]
          /\ faulted' = TRUE
          /\ pc' = "brave_except"
    /\ UNCHANGED <<fn, num_results, results, summaries, snippets, ret, returned,
                   raised, open, acquired, parsed>>

\* if not web_results: return "No results found"
BraveNoResults(rs) == Len(rs) = 0

\* the rest of the try block: web_results, the loop, the return or the raise
BraveFormat ==
    /\ pc = "brave_format"
    /\ results' = WebResults(resp.data)
    /\ IF BraveNoResults(results')
          THEN /\ ret' = NoResultsFound
               /\ returned' = TRUE
               /\ pc' = "done"
               /\ UNCHANGED <<summaries, snippets, exc, faulted>>
          ELSE LET out == BraveLoop(results', 1, <<>>, <<>>)
               IN  /\ summaries' = out.summaries
                   /\ snippets' = out.snippets
                   /\ IF out.ok
                         THEN /\ ret' = BraveJoin(out.summaries)
                              /\ returned' = TRUE
                              /\ pc' = "done"
                              /\ UNCHANGED <<exc, faulted>>
                         ELSE /\ exc' = <<out.msg>>
                              /\ faulted' = TRUE
                              /\ pc' = "brave_except"
                              /\ UNCHANGED <<ret, returned>>
    /\ UNCHANGED <<fn, num_results, sent, resp, raised, open, acquired, parsed>>

\* except Exception as e: return f"Error: {str(e)}"
BraveExcept ==
    /\ pc = "brave_except"
    /\ ret' = ErrorString(exc[1])
    /\ returned' = TRUE
    /\ pc' = "done"
    /\ UNCHANGED <<fn, num_results, sent, resp, results, summaries, snippets, exc,
                   raised, faulted, open, acquired, parsed>>

(* ------------------------------ search_RAG ----------------------------- *)
\* documents the retrieval endpoint answers with; the last three lack a key
RagDocs ==
    << [title |-> TitleA, text |-> Body(250, {181, 230})],
       [title |-> TitleB, text |-> Body(250, {230})],
       [title |-> TitleA, text |-> Body(12, {4, 9})],
       [text |-> Body(201, {200, 201})],
       [title |-> TitleB],
       EmptyDict >>

\* HTTP status codes the endpoint answers with
StatusCodes == {200, 204, 404, 500}

JsonErrorMsg == <<"E", "x", "p", "e", "c", "t", "i", "n", "g", " ", "v", "a", "l", "u", "e">>

\* response bodies: not JSON, or a JSON object without 'result', with an empty
\* 'result', or with a 'result' whose first element is a list of documents
RagBodies ==
    { [valid |-> FALSE, data |-> EmptyDict], [valid |-> TRUE, data |-> EmptyDict],
      [valid |-> TRUE, data |-> [result |-> <<>>]] }
        \cup { [valid |-> TRUE, data |-> [result |-> <<l>>]] : l \in ListsOver(RagDocs, MaxRecords) }

\* {"queries": [query], "topk": num_results, "return_scores": False}
RagPayload(query, n) == [queries |-> <<query>>, topk |-> n, return_scores |-> FALSE]

\* RagBadStatus taking every 2xx status for a success
RagBadStatusNon2xx(status) == status < 200 \/ status >= 300

\* response.status_code != 200
RagBadStatus(status) == status # HttpOk

\* f"Error: {response.status_code}"
RagStatusError(status) == ErrorPrefix \o IntToStr(status)

\* RagNoResults without the test of results[0]
RagNoResultsOuterOnly(rs) == Len(rs) = 0

\* not results or not results[0]
RagNoResults(rs) == Len(rs) = 0 \/ Len(rs[1]) = 0

\* snippet = text[:200]; if '.' in snippet: snippet = snippet.rsplit('.', 1)[0] + '.'
RagSnippet(text) ==
    LET snippet == Prefix(text, RagWindow)
    IN  IF Contains(snippet, ".") THEN RSplitFirst(snippet) \o <<".">> ELSE snippet

\* f"• {title}\n  {snippet}"
RagBlock(title, snippet) == DdgBullet \o title \o DdgIndent \o snippet

\* the for loop over results[0]
RECURSIVE RagLoop(_, _, _, _)
RagLoop(docs, i, sums, snips) ==
    IF i > Len(docs) THEN [ok |-> TRUE, summaries |-> sums, snippets |-> snips, msg |-> <<>>]
    ELSE LET doc == docs[i]
             title == DictGet(doc, "title", NoTitle)
             text == DictGet(doc, "text", NoTextAvailable)
             snippet == RagSnippet(text)
         IN  RagLoop(docs, i + 1, Append(sums, RagBlock(title, snippet)), Append(snips, snippet))

\* search_RAG(query, num_results) is called
CallRag ==
    /\ pc = "idle"
    /\ \E n \in NumResultsArgs : num_results' = n
    /\ fn' = "search_RAG"
    /\ pc' = "rag_import"
    /\ UNCHANGED <<sent, resp, results, summaries, snippets, exc, ret, returned,
                   raised, faulted, open, acquired, parsed>>

\* import requests, outside the try
RagImport ==
    /\ pc = "rag_import"
    /\ \/ /\ pc' = "rag_post"
          /\ UNCHANGED <<exc, raised, faulted>>
       \/ /\ pc' = "done"
          /\ exc' = <<ImportErrorMsg>>
          /\ raised' = TRUE
          /\ faulted' = TRUE
    /\ UNCHANGED <<fn, num_results, sent, resp, results, summaries, snippets, ret,
                   returned, open, acquired, parsed>>

\* response = requests.post(url, json=payload)
RagPost ==
    /\ pc = "rag_post"
    /\ sent' = Append(sent, [url |-> RetrieveUrl, json |-> RagPayload(Query, num_results)])
    /\ \/ /\ \E st \in StatusCodes, b \in RagBodies :
                resp' = [kind |-> "http", status_code |-> st, body |-> b]
          /\ pc' = "rag_status"
          /\ UNCHANGED <<exc, faulted>>
       \/ /\ \E m \in FaultMsgs : exc' = <<m>>
          /\ resp' = [kind |-> "fault"]
          /\ faulted' = TRUE
          /\ pc' = "rag_except"
    /\ UNCHANGED <<fn, num_results, results, summaries, snippets, ret, returned,
                   raised, open, acquired, parsed>>

\* if response.status_code != 200: return f"Error: {response.status_code}"
RagStatus ==
    /\ pc = "rag_status"
    /\ IF RagBadStatus(resp.status_code)
          THEN /\ ret' = RagStatusError(resp.status_code)
               /\ returned' = TRUE
               /\ pc' = "done"
          ELSE /\ pc' = "rag_parse"
               /\ UNCHANGED <<ret, returned>>
    /\ UNCHANGED <<fn, num_results, sent, resp, results, summaries, snippets, exc,
                   raised, faulted, open, acquired, parsed>>

\* data = response.json() and the rest of the try block
RagParse ==
    /\ pc = "rag_parse"
    /\ parsed' = TRUE
    /\ IF ~resp.body.valid
          THEN /\ exc' = <<JsonErrorMsg>>
               /\ faulted' = TRUE
               /\ pc' = "rag_except"
               /\ UNCHANGED <<results, summaries, snippets, ret, returned>>
          ELSE /\ results' = DictGet(resp.body.data, "result", <<>>)
               /\ UNCHANGED <<exc, faulted>>
               /\ returned' = TRUE
               /\ pc' = "done"
               /\ IF RagNoResults(results')
                     THEN /\ ret' = NoResultsFound
                          /\ UNCHANGED <<summaries, snippets>>
                     ELSE LET out == RagLoop(results'[1], 1, <<>>, <<>>)
                          IN  /\ summaries' = out.summaries
                              /\ snippets' = out.snippets
                              /\ ret' = JoinSummaries(out.summaries)
    /\ UNCHANGED <<fn, num_results, sent, resp, raised, open, acquired>>

\* except Exception as e: return f"Error: {str(e)}"
RagExcept ==
    /\ pc = "rag_except"
    /\ ret' = ErrorString(exc[1])
    /\ returned' = TRUE
    /\ pc' = "done"
    /\ UNCHANGED <<fn, num_results, sent, resp, results, summaries, snippets, exc,
                   raised, faulted, open, acquired, parsed>>

Next ==
    \/ CallDdg
    \/ DdgImport
    \/ DdgEnter
    \/ DdgText
    \/ DdgFormat
    \/ DdgExit
    \/ DdgExcept
    \/ CallSearch
    \/ BraveImport
    \/ BraveNew
    \/ BraveSearch
    \/ BraveFormat
    \/ BraveExcept
    \/ CallRag
    \/ RagImport
    \/ RagPost
    \/ RagStatus
    \/ RagParse
    \/ RagExcept

Spec == Init /\ [][Next]_vars

(* ------------------------- reading the output -------------------------- *)
HasPrefix(s, p) == Len(s) >= Len(p) /\ SubSeq(s, 1, Len(p)) = p

\* s.split("\n\n"): the pieces of s between blank-line separators
RECURSIVE SplitBlocks(_)
SplitBlocks(s) ==
    LET seps == { i \in 1..(Len(s) - 1) : s[i] = "\n" /\ s[i + 1] = "\n" }
    IN  IF seps = {} THEN <<s>>
        ELSE LET k == CHOOSE i \in seps : \A j \in seps : i <= j
             IN  <<SubSeq(s, 1, k - 1)>> \o SplitBlocks(SubSeq(s, k + 2, Len(s)))

\* the number of bullet markers in s
BulletCount(s) == Cardinality({ i \in 1..Len(s) : s[i] = "BULLET" })

Done == pc = "done"

\* the list the backend of the finished call answered with, <<>> when it
\* answered with none
AnsweredRecords ==
    IF fn = "search_ddg" /\ resp.kind = "list" THEN resp.items
    ELSE IF fn = "search" /\ resp.kind = "raw"
            /\ "web" \in DOMAIN resp.data /\ "results" \in DOMAIN resp.data.web
        THEN resp.data.web.results
    ELSE IF fn = "search_RAG" /\ resp.kind = "http" /\ resp.body.valid
            /\ "result" \in DOMAIN resp.body.data /\ Len(resp.body.data.result) > 0
        THEN resp.body.data.result[1]
    ELSE <<>>

\* the backend answered successfully (for search_RAG: status 200 and a JSON body)
AnsweredOk ==
    \/ fn = "search_ddg" /\ resp.kind = "list"
    \/ fn = "search" /\ resp.kind = "raw"
    \/ fn = "search_RAG" /\ resp.kind = "http" /\ resp.status_code = 200 /\ resp.body.valid

(* -------------------------------- claims ------------------------------- *)
\* C1: in each of the three tools every fault raised at any step of a call
\* (loading or constructing the client, the request, parsing, formatting) is
\* caught: the call returns, nothing propagates to the caller, and the
\* returned string starts with "Error: ".
C1_EveryFaultAbsorbed ==
    Done => /\ ~raised
            /\ returned
            /\ faulted => HasPrefix(ret, ErrorPrefix)

\* C2: in each of the three tools, when the backend answers successfully with
\* zero result records (empty list, missing collection, or for search_RAG a
\* result whose first element is empty) the return value is exactly
\* "No results found".
C2_ZeroRecordsGiveNoResultsFound ==
    (Done /\ AnsweredOk /\ Len(AnsweredRecords) = 0)
        => returned /\ ~raised /\ ret = NoResultsFound

\* C2 witness: search_RAG has returned on the answer {"result": [[]]}
C2_Witness ==
    /\ Done /\ fn = "search_RAG" /\ AnsweredOk
    /\ "result" \in DOMAIN resp.body.data
    /\ Len(resp.body.data.result) = 1
    /\ Len(resp.body.data.result[1]) = 0
    /\ ret = NoResultsFound

\* C3: search_ddg asks for min(num_results, 10) results and its summary holds
\* at most min(num_results, 10) bullet blocks, even when the backend returns
\* more records than were requested.
C3_DdgBlocksAtMostClamped ==
    (Done /\ fn = "search_ddg" /\ returned /\ Len(sent) > 0)
        => /\ sent[1].max_results = Min(num_results, 10)
           /\ BulletCount(ret) <= Min(num_results, 10)

\* C4: whenever the retrieval endpoint answers search_RAG with a status other
\* than 200, the call returns exactly "Error: <status code>" at once and the
\* response body is never parsed, whatever it contains.
C4_RagNon200 ==
    (Done /\ fn = "search_RAG" /\ resp.kind = "http" /\ resp.status_code # 200)
        => /\ returned /\ ~raised /\ ~faulted
           /\ ~parsed
           /\ results = <<>> /\ summaries = <<>>
           /\ ret = <<"E", "r", "r", "o", "r", ":", " ">> \o
                    (CASE resp.status_code = 204 -> <<"2", "0", "4">>
                       [] resp.status_code = 404 -> <<"4", "0", "4">>
                       [] resp.status_code = 500 -> <<"5", "0", "0">>)

\* C4 witness: status 500 with a body full of documents gave "Error: 500"
C4_Witness ==
    /\ Done /\ fn = "search_RAG" /\ resp.kind = "http"
    /\ resp.status_code = 500
    /\ Len(AnsweredRecords) > 0
    /\ ret = <<"E", "r", "r", "o", "r", ":", " ", "5", "0", "0">>

\* every record of the answer has the keys the tool formats
WellFormedAnswer ==
    /\ AnsweredOk
    /\ \A i \in 1..Len(AnsweredRecords) :
          IF fn = "search_ddg" THEN {"title", "body"} \subseteq DOMAIN AnsweredRecords[i]
          ELSE {"title", "text"} \subseteq DOMAIN AnsweredRecords[i]

\* the snippet snip is what C5 says of the text body: with a period among the
\* first 200 characters, the body up to and including the last such period;
\* with none, the first 200 characters, plus a period when appendPeriod
SnippetAsClaimed(body, snip, appendPeriod) ==
    LET w == IF Len(body) < 200 THEN Len(body) ELSE 200
        periods == { i \in 1..w : body[i] = "." }
    IN  IF periods # {}
           THEN /\ Len(snip) \in periods
                /\ \A i \in periods : i <= Len(snip)
                /\ \A i \in 1..Len(snip) : snip[i] = body[i]
           ELSE /\ Len(snip) = w + (IF appendPeriod THEN 1 ELSE 0)
                /\ \A i \in 1..w : snip[i] = body[i]
                /\ appendPeriod => snip[w + 1] = "."

\* C5: in search_ddg and search_RAG the snippet of every body text is its
\* first 200 characters trimmed back to end at the last period of that window;
\* without a period in the window it is the raw 200-character truncation, with
\* a period appended in search_ddg and unchanged in search_RAG.
C5_SnippetTruncation ==
    /\ (Done /\ fn = "search_ddg")
          => \A k \in 1..Len(snippets) : SnippetAsClaimed(results[k].body, snippets[k], TRUE)
    /\ (Done /\ fn = "search_RAG")
          => \A k \in 1..Len(snippets) :
                "text" \in DOMAIN results[1][k]
                    => SnippetAsClaimed(results[1][k].text, snippets[k], FALSE)
    /\ (Done /\ fn \in {"search_ddg", "search_RAG"} /\ WellFormedAnswer)
          => returned /\ ~raised /\ ~faulted /\ Len(snippets) = Len(AnsweredRecords)

\* C5 witness: search_ddg has cut a 250-character body whose last period in
\* the window is character 181 down to its first 181 characters
C5_Witness ==
    /\ Done /\ fn = "search_ddg" /\ Len(snippets) > 0
    /\ Len(results[1].body) = 250
    /\ results[1].body[181] = "."
    /\ \A i \in 182..200 : results[1].body[i] # "."
    /\ snippets[1] = SubSeq(results[1].body, 1, 181)

\* C6: search returns exactly "No results found" whenever the backend returns
\* zero usable records, also for a non-empty list whose records all lack
\* 'profile'; so search never returns the empty string.
C6_SearchNoUsableRecords ==
    (Done /\ fn = "search" /\ returned)
        => /\ ret # <<>>
           /\ (AnsweredOk /\ \A i \in 1..Len(AnsweredRecords) :
                                 "profile" \notin DOMAIN AnsweredRecords[i])
                 => ret = NoResultsFound

HasProfile(r) == "profile" \in DOMAIN r

\* r has every key the loop body of search reads
WellFormedWebRecord(r) ==
    /\ {"profile", "title", "description", "url"} \subseteq DOMAIN r
    /\ {"name", "long_name"} \subseteq DOMAIN r.profile

\* the text of the block of a well-formed record of search
WebBlockText(r) ==
    <<"BULLET", " ", " ">> \o r.profile.name \o <<" ", "(">> \o r.profile.long_name \o <<")">>
        \o <<"\n", " ", " ", " ">> \o r.title
        \o <<"\n", " ", " ", " ">>
        \o SubSeq(r.description, 1, IF Len(r.description) < 300 THEN Len(r.description) ELSE 300)
        \o <<" ", ".", ".", ".">>
        \o <<"\n", " ", " ", " ">> \o r.url

\* C7: the summary search returns consists of the blocks of the first three
\* records, in backend order, that carry 'profile'; a record without
\* 'profile' is skipped silently: no block, no fault, no share of the cap of 3.
C7_SearchFirstThreeProfiled ==
    (Done /\ fn = "search" /\ AnsweredOk /\ Len(AnsweredRecords) > 0
          /\ \A i \in 1..Len(AnsweredRecords) :
                HasProfile(AnsweredRecords[i]) => WellFormedWebRecord(AnsweredRecords[i]))
        => LET profiled == SelectSeq(AnsweredRecords, HasProfile)
               n == IF Len(profiled) < 3 THEN Len(profiled) ELSE 3
           IN  /\ returned /\ ~raised /\ ~faulted
               /\ BulletCount(ret) = n
               /\ IF n = 0 THEN ret = <<>>
                  ELSE /\ Len(SplitBlocks(ret)) = n
                       /\ \A k \in 1..n : SplitBlocks(ret)[k] = WebBlockText(profiled[k])

\* C7 witness: four records, the first without 'profile', the other three
\* with it; all three of those are in the summary
C7_Witness ==
    /\ Done /\ fn = "search" /\ AnsweredOk /\ returned
    /\ Len(AnsweredRecords) = 4
    /\ ~HasProfile(AnsweredRecords[1])
    /\ \A i \in 2..4 : WellFormedWebRecord(AnsweredRecords[i])
    /\ Len(SplitBlocks(ret)) = 3
    /\ SplitBlocks(ret)[3] = WebBlockText(AnsweredRecords[4])

\* C8: in search a record lacking any required field (title, description, url,
\* profile name or long_name) is skipped instead of failing the call: the
\* result is not an "Error: ..." string and the well-formed records are
\* still formatted.
C8_SearchSkipsMalformedRecords ==
    (Done /\ fn = "search" /\ AnsweredOk /\ Len(AnsweredRecords) > 0)
        => /\ returned
           /\ ~HasPrefix(ret, ErrorPrefix)

\* C9: when the backend of search_ddg or search_RAG returns n >= 1 well-formed
\* records (search_ddg: n <= min(num_results, 10)) the output is exactly n
\* blocks in backend order, each "BULLET title", newline, two spaces, snippet,
\* with one blank line between blocks and none before or after.
C9_OneBlockPerRecord ==
    (Done /\ fn \in {"search_ddg", "search_RAG"} /\ WellFormedAnswer
          /\ Len(AnsweredRecords) >= 1
          /\ (fn = "search_ddg" => Len(AnsweredRecords) <= Min(num_results, 10)))
        => LET n == Len(AnsweredRecords)
               blocks == SplitBlocks(ret)
           IN  /\ returned /\ ~raised /\ ~faulted
               /\ BulletCount(ret) = n
               /\ Len(blocks) = n
               /\ Len(snippets) = n
               /\ \A k \in 1..n :
                     blocks[k] = <<"BULLET", " ">> \o AnsweredRecords[k].title
                                     \o <<"\n", " ", " ">> \o snippets[k]
               /\ ret[1] = "BULLET"
               /\ ret[Len(ret)] # "\n"

\* C9 witness: search_ddg with num_results = 3 and three well-formed records
\* has returned three blocks
C9_Witness ==
    /\ Done /\ fn = "search_ddg" /\ num_results = 3 /\ WellFormedAnswer
    /\ Len(AnsweredRecords) = 3
    /\ AnsweredRecords[1].title # AnsweredRecords[2].title
    /\ Len(SplitBlocks(ret)) = 3
    /\ BulletCount(ret) = 3

\* C10: search_ddg and search acquire at most one client per call, send at
\* most one request with it, and on every exit path have released the client
\* before returning: no client is open after a call.
C10_ClientReleasedOnExit ==
    (Done /\ fn \in {"search_ddg", "search"})
        => /\ acquired <= 1
           /\ Len(sent) <= 1
           /\ open = 0
====
